---- MODULE Spec2Model ----
(***************************************************************************)
(* A model of the VideoCore IV QPU assembler (videocore/assembler.py):     *)
(* the register catalog, the small-immediate codec, the operand placement  *)
(* solver, the four 64-bit word builders and the Assembler object (buffer, *)
(* PC, label map, backpatch list, mul-binders).                            *)
(*                                                                         *)
(* Instruction words are kept as the code keeps them: 8 bytes, little      *)
(* endian, built from the ctypes bit-field layouts.  32-bit quantities are *)
(* handled as two 16-bit halves or as a signed value, since the integers   *)
(* of the model checker are 32 bits wide.                                  *)
(***************************************************************************)
EXTENDS Integers, Sequences, FiniteSets, TLC

VARIABLES
    insns,           \* Assembler.insns: the words, 8 bytes each
    pc,              \* Assembler.pc
    labels,          \* Assembler.labels: label name -> PC
    backpatch_list,  \* Assembler.backpatch_list: <<PC, label name>>
    emitter,         \* the MulInsnEmitter the front end holds
    branched,        \* history: <<PC, label>> of the label branches emitted
    last             \* the last front-end call, its outcome and result

vars == <<insns, pc, labels, backpatch_list, emitter, branched, last>>

asm_vars == <<insns, pc, labels, backpatch_list>>

(***************************************************************************)
(* Bounds of the model.                                                    *)
(***************************************************************************)
\* the front end emits at most this many words
MaxInsns == 2
\* the backpatch list is explored up to this length
MaxPending == 2

(***************************************************************************)
(* Registers.                                                              *)
(***************************************************************************)
_REG_AR == 8
_REG_BR == 4
_REG_AW == 2
_REG_BW == 1

\* the bit `flag` of a capability mask
HasSpec(spec, flag) == (spec \div flag) % 2 = 1

Register(name, addr, spec, pack, unpack, pm) ==
    [kind |-> "reg", name |-> name, addr |-> addr, spec |-> spec,
     pack_bits |-> pack, unpack_bits |-> unpack, pm_bits |-> pm]

Reg(name, addr, spec) == Register(name, addr, spec, 0, 0, FALSE)

IsRegister(opd) == opd.kind = "reg"

\* an operand that is a number, not a Register
IsImmediate(opd) == ~IsRegister(opd)

\* the general purpose registers ra<n>, rb<n>
ra(n) == Reg("ra" \o ToString(n), n, 10)
rb(n) == Reg("rb" \o ToString(n), n, 5)

uniform        == Reg("uniform", 32, 12)
r0             == Reg("r0", 32, 3)
r1             == Reg("r1", 33, 3)
r2             == Reg("r2", 34, 3)
r3             == Reg("r3", 35, 3)
r4             == Reg("r4", 36, 0)
r5             == Reg("r5", 37, 3)
host_interrupt == Reg("host_interrupt", 38, 3)
element_number == Reg("element_number", 38, 8)
qpu_number     == Reg("qpu_number", 38, 4)
null           == Reg("null", 39, 15)
vpm            == Reg("vpm", 48, 15)
vpm_st_wait    == Reg("vpm_st_wait", 50, 4)
vpm_ld_wait    == Reg("vpm_ld_wait", 50, 8)

Failure(e) == [kind |-> "error", err |-> e]

\* Register.unpack, with the pattern given by its _UNPACK code
RegUnpack(reg, bits) ==
    IF reg.name \in {"r0", "r1", "r2", "r3"} THEN Failure("NoUnpack")
    ELSE IF reg.name = "r4"
         THEN Register(reg.name, reg.addr, _REG_AR + _REG_BR, 0, bits, TRUE)
    ELSE IF ~HasSpec(reg.spec, _REG_AR) THEN Failure("NoUnpack")
    ELSE Register(reg.name, reg.addr, _REG_AR, 0, bits, FALSE)

\* Register.pack, with the pattern given by its _PACK code and whether it
\* ends in 'mul'
RegPack(reg, bits, mul) ==
    IF reg.name \in {"r0", "r1", "r2", "r3"} THEN Failure("NoPack")
    ELSE IF ~mul
         THEN IF ~HasSpec(reg.spec, _REG_AW) THEN Failure("NoPack")
              ELSE Register(reg.name, reg.addr, _REG_AW, bits, 0, FALSE)
    ELSE IF ~HasSpec(reg.spec, _REG_BW) THEN Failure("NoPack")
    ELSE Register(reg.name, reg.addr, _REG_BW, bits, 0, TRUE)

(***************************************************************************)
(* Small immediates.  A value is an integer [kind "int", n] or a float     *)
(* m * 2^e kept as [kind "float", m, e] (m = 0 is 0.0, m = 1 a power of    *)
(* two, any other m a float outside the table).  SMALL_IMMEDIATES is keyed *)
(* by repr(val): the integers -16..15, the floats 2.0^-8..2.0^7 and 0.0.   *)
(***************************************************************************)
IntVal(n) == [kind |-> "int", n |-> n]
FloatVal(m, e) == [kind |-> "float", m |-> m, e |-> e]

NoCode == -1

SMALL_IMMEDIATES(val) ==
    IF val.kind = "int"
    THEN IF val.n \in 0..15 THEN val.n
         ELSE IF val.n \in -16..-1 THEN val.n + 32
         ELSE NoCode
    ELSE IF val.m = 0 THEN 0
         ELSE IF val.m = 1 /\ val.e \in 0..7 THEN val.e + 32
         ELSE IF val.m = 1 /\ val.e \in -8..-1 THEN val.e + 48
         ELSE NoCode

pack_small_imm(val) ==
    LET code == SMALL_IMMEDIATES(val)
    IN  IF code = NoCode THEN Failure("IllegalImmediate")
        ELSE [kind |-> "code", code |-> code]

(***************************************************************************)
(* Operand placement: locate_read_operands.                                *)
(***************************************************************************)
\* Python's None for raddr_a, raddr_b and the mux entries
None == -1

INPUT_MUX_REGFILE_A == 6
INPUT_MUX_REGFILE_B == 7

IsAccumulator(opd) ==
    IsRegister(opd) /\ opd.name \in {"r0", "r1", "r2", "r3", "r4", "r5"}

ACCUMURATOR_CODES(name) ==
    CASE name = "r0" -> 0 [] name = "r1" -> 1 [] name = "r2" -> 2
      [] name = "r3" -> 3 [] name = "r4" -> 4 [] name = "r5" -> 5

\* one iteration of the first loop: the pack check and the unpack record
ReadModifierStep(s, opd) ==
    IF s.err # "none" \/ ~IsRegister(opd) THEN s
    ELSE IF opd.pack_bits # 0 THEN [s EXCEPT !.err = "PackingOfReadOperand"]
    ELSE IF opd.unpack_bits # 0
         THEN IF s.unpack # 0 /\ opd.unpack_bits # s.unpack
              THEN [s EXCEPT !.err = "MultipleUnpacking"]
              ELSE [s EXCEPT !.unpack = opd.unpack_bits, !.pm = opd.pm_bits]
    ELSE s

\* one iteration of the second loop: operands whose regfile is uniquely
\* specified (a small immediate, an A-only register, a B-only register)
LocateUniqueStep(s, i, opd) ==
    IF s.err # "none" \/ s.mux[i] # None THEN s
    ELSE IF ~IsRegister(opd)
         THEN LET imm == pack_small_imm(opd)
              IN  IF imm.kind = "error" THEN [s EXCEPT !.err = imm.err]
                  ELSE IF s.raddr_b # None
                          /\ ~(s.immed /\ s.raddr_b = imm.code)
                       THEN [s EXCEPT !.err = "TooManyRegfileB"]
                  ELSE [s EXCEPT !.raddr_b = imm.code,
                                 !.mux[i] = INPUT_MUX_REGFILE_B,
                                 !.immed = TRUE]
    ELSE IF HasSpec(opd.spec, _REG_AR) /\ ~HasSpec(opd.spec, _REG_BR)
         THEN IF s.raddr_a # None /\ s.raddr_a # opd.addr
              THEN [s EXCEPT !.err = "TooManyRegfileA"]
              ELSE [s EXCEPT !.raddr_a = opd.addr,
                             !.mux[i] = INPUT_MUX_REGFILE_A]
    ELSE IF ~HasSpec(opd.spec, _REG_AR) /\ HasSpec(opd.spec, _REG_BR)
         THEN IF s.raddr_b # None /\ s.raddr_b # opd.addr
              THEN [s EXCEPT !.err = "TooManyRegfileB"]
              ELSE [s EXCEPT !.raddr_b = opd.addr,
                             !.mux[i] = INPUT_MUX_REGFILE_B]
    ELSE s

\* a variant of the third loop that selects a regfile without committing
\* the operand's address to it
LocateRemainingStepNoAddr(s, i, opd) ==
    IF s.err # "none" \/ s.mux[i] # None THEN s
    ELSE IF ~HasSpec(opd.spec, _REG_AR) /\ ~HasSpec(opd.spec, _REG_BR)
         THEN [s EXCEPT !.err = "NotAReadOperand"]
    ELSE IF s.raddr_a = None /\ HasSpec(opd.spec, _REG_AR)
         THEN [s EXCEPT !.mux[i] = INPUT_MUX_REGFILE_A]
    ELSE IF s.raddr_b = None /\ HasSpec(opd.spec, _REG_BR)
         THEN [s EXCEPT !.mux[i] = INPUT_MUX_REGFILE_B]
    ELSE [s EXCEPT !.err = "TooManyRegfile"]

\* one iteration of the third loop: the remaining operands
LocateRemainingStep(s, i, opd) ==
    IF s.err # "none" \/ s.mux[i] # None THEN s
    ELSE IF ~HasSpec(opd.spec, _REG_AR) /\ ~HasSpec(opd.spec, _REG_BR)
         THEN [s EXCEPT !.err = "NotAReadOperand"]
    ELSE IF s.raddr_a = None /\ HasSpec(opd.spec, _REG_AR)
         THEN [s EXCEPT !.raddr_a = opd.addr, !.mux[i] = INPUT_MUX_REGFILE_A]
    ELSE IF s.raddr_b = None /\ HasSpec(opd.spec, _REG_BR)
         THEN [s EXCEPT !.raddr_b = opd.addr, !.mux[i] = INPUT_MUX_REGFILE_B]
    ELSE [s EXCEPT !.err = "TooManyRegfile"]

locate_read_operands(add1, add2, mul1, mul2) ==
    LET operands == <<add1, add2, mul1, mul2>>
        m0 == [err |-> "none", unpack |-> 0, pm |-> FALSE]
        m1 == ReadModifierStep(m0, operands[1])
        m2 == ReadModifierStep(m1, operands[2])
        m3 == ReadModifierStep(m2, operands[3])
        m4 == ReadModifierStep(m3, operands[4])
        mux0 == [i \in 1..4 |->
                   IF IsAccumulator(operands[i])
                   THEN ACCUMURATOR_CODES(operands[i].name) ELSE None]
        s0 == [err |-> "none", mux |-> mux0, raddr_a |-> None,
               raddr_b |-> None, immed |-> FALSE]
        u1 == LocateUniqueStep(s0, 1, operands[1])
        u2 == LocateUniqueStep(u1, 2, operands[2])
        u3 == LocateUniqueStep(u2, 3, operands[3])
        u4 == LocateUniqueStep(u3, 4, operands[4])
        v1 == LocateRemainingStep(u4, 1, operands[1])
        v2 == LocateRemainingStep(v1, 2, operands[2])
        v3 == LocateRemainingStep(v2, 3, operands[3])
        v4 == LocateRemainingStep(v3, 4, operands[4])
        Out(mux, a, b, immed) ==
            [kind |-> "ok", mux |-> mux, raddr_a |-> a, raddr_b |-> b,
             immed |-> immed, unpack |-> m4.unpack, pm |-> m4.pm]
    IN  IF m4.err # "none" THEN Failure(m4.err)
        ELSE IF \A i \in 1..4 : mux0[i] # None
             THEN Out(mux0, null.addr, null.addr, FALSE)
        ELSE IF v4.err # "none" THEN Failure(v4.err)
        ELSE Out(v4.mux,
                 IF v4.raddr_a = None THEN null.addr ELSE v4.raddr_a,
                 IF v4.raddr_b = None THEN null.addr ELSE v4.raddr_b,
                 v4.immed)

(***************************************************************************)
(* Operand placement: locate_write_operands.                               *)
(***************************************************************************)
\* a variant of locate_write_operands that exchanges the two addresses
\* when the destinations are swapped
locate_write_operands_exchanged(add_dst, mul_dst) ==
    LET tooMany == add_dst.pack_bits # 0 /\ mul_dst.pack_bits # 0
        pack == IF add_dst.pack_bits # 0 THEN add_dst.pack_bits
                ELSE mul_dst.pack_bits
        pm == add_dst.pack_bits = 0 /\ mul_dst.pack_bits # 0
    IN  IF tooMany THEN Failure("TooManyPacking")
        ELSE IF HasSpec(add_dst.spec, _REG_AW) /\ HasSpec(mul_dst.spec, _REG_BW)
             THEN [kind |-> "ok", waddr_add |-> add_dst.addr,
                   waddr_mul |-> mul_dst.addr, ws |-> FALSE,
                   pack |-> pack, pm |-> pm]
        ELSE IF HasSpec(mul_dst.spec, _REG_AW) /\ HasSpec(add_dst.spec, _REG_BW)
             THEN [kind |-> "ok", waddr_add |-> mul_dst.addr,
                   waddr_mul |-> add_dst.addr, ws |-> TRUE,
                   pack |-> pack, pm |-> pm]
        ELSE Failure("BadDestinationCombination")

locate_write_operands(add_dst, mul_dst) ==
    LET tooMany == add_dst.pack_bits # 0 /\ mul_dst.pack_bits # 0
        pack == IF add_dst.pack_bits # 0 THEN add_dst.pack_bits
                ELSE mul_dst.pack_bits
        pm == add_dst.pack_bits = 0 /\ mul_dst.pack_bits # 0
        Out(ws) == [kind |-> "ok", waddr_add |-> add_dst.addr,
                    waddr_mul |-> mul_dst.addr, ws |-> ws,
                    pack |-> pack, pm |-> pm]
    IN  IF tooMany THEN Failure("TooManyPacking")
        ELSE IF HasSpec(add_dst.spec, _REG_AW) /\ HasSpec(mul_dst.spec, _REG_BW)
             THEN Out(FALSE)
        ELSE IF HasSpec(mul_dst.spec, _REG_AW) /\ HasSpec(add_dst.spec, _REG_BW)
             THEN Out(TRUE)
        ELSE Failure("BadDestinationCombination")

(***************************************************************************)
(* Instruction words.  A ctypes Structure of c_ulong bit fields lays its   *)
(* fields out from bit 0 upwards and keeps of each value the low `width`   *)
(* bits; to_bytes gives the 8 bytes of the word, least significant first.  *)
(***************************************************************************)
\* Python's int(bool)
B2I(b) == IF b THEN 1 ELSE 0

\* bit j (from 0) of the two's complement form of v
BitOf(v, j) ==
    IF j >= 31 THEN (IF v < 0 THEN 1 ELSE 0) ELSE (v \div (2 ^ j)) % 2

\* a bit field keeps the low `width` bits of the value assigned to it
FieldBits(v, width) == [j \in 1..width |-> BitOf(v, j - 1)]

\* the bits of a sequence of <<value, width>> fields, first field lowest
RECURSIVE LayoutBits(_)
LayoutBits(fields) ==
    IF fields = <<>> THEN <<>>
    ELSE FieldBits(Head(fields)[1], Head(fields)[2]) \o LayoutBits(Tail(fields))

\* Insn.to_bytes: the 8 bytes of the word, least significant first
to_bytes(fields) ==
    LET bits == LayoutBits(fields)
    IN  [i \in 1..8 |->
            bits[8 * i - 7] + 2 * bits[8 * i - 6] + 4 * bits[8 * i - 5]
            + 8 * bits[8 * i - 4] + 16 * bits[8 * i - 3]
            + 32 * bits[8 * i - 2] + 64 * bits[8 * i - 1]
            + 128 * bits[8 * i]]

\* bit k (from 0) of a stored word
WordBit(buf, k) == (buf[(k \div 8) + 1] \div (2 ^ (k % 8))) % 2

\* the unsigned value of the `width` bits of a stored word from bit `off`
RECURSIVE GetField(_, _, _)
GetField(buf, off, width) ==
    IF width = 0 THEN 0
    ELSE WordBit(buf, off) + 2 * GetField(buf, off + 1, width - 1)

\* a 32-bit field on a byte boundary, read back as the signed value with
\* the same bits
GetField32(buf, off) ==
    LET k == off \div 8
        top == IF buf[k + 4] >= 128 THEN buf[k + 4] - 256 ELSE buf[k + 4]
    IN  buf[k + 1] + 256 * buf[k + 2] + 65536 * buf[k + 3] + 16777216 * top

AluInsn(f) ==
    to_bytes(<<
        <<f.mul_b, 3>>, <<f.mul_a, 3>>, <<f.add_b, 3>>, <<f.add_a, 3>>,
        <<f.raddr_b, 6>>, <<f.raddr_a, 6>>, <<f.op_add, 5>>, <<f.op_mul, 3>>,
        <<f.waddr_mul, 6>>, <<f.waddr_add, 6>>, <<f.ws, 1>>, <<f.sf, 1>>,
        <<f.cond_mul, 3>>, <<f.cond_add, 3>>, <<f.pack, 4>>, <<f.pm, 1>>,
        <<f.unpack, 3>>, <<f.sig, 4>> >>)

BranchInsn(f) ==
    to_bytes(<<
        <<f.immediate, 32>>, <<f.waddr_mul, 6>>, <<f.waddr_add, 6>>,
        <<f.ws, 1>>, <<f.raddr_a, 5>>, <<f.reg, 1>>, <<f.rel, 1>>,
        <<f.cond_br, 4>>, <<f.dontcare, 4>>, <<f.sig, 4>> >>)

LoadInsn(f) ==
    to_bytes(<<
        <<f.immediate, 32>>, <<f.waddr_mul, 6>>, <<f.waddr_add, 6>>,
        <<f.ws, 1>>, <<f.sf, 1>>, <<f.cond_mul, 3>>, <<f.cond_add, 3>>,
        <<f.pack, 4>>, <<f.pm, 1>>, <<f.unpack, 3>>, <<f.sig, 4>> >>)

SemaInsn(f) ==
    to_bytes(<<
        <<f.semaphore, 4>>, <<f.sa, 1>>, <<f.dontcare, 27>>,
        <<f.waddr_mul, 6>>, <<f.waddr_add, 6>>, <<f.ws, 1>>, <<f.sf, 1>>,
        <<f.cond_mul, 3>>, <<f.cond_add, 3>>, <<f.pack, 4>>, <<f.pm, 1>>,
        <<f.unpack, 3>>, <<f.sig, 4>> >>)

\* BranchInsn.from_buffer_copy
BranchFields(buf) ==
    [immediate |-> GetField32(buf, 0), waddr_mul |-> GetField(buf, 32, 6),
     waddr_add |-> GetField(buf, 38, 6), ws |-> GetField(buf, 44, 1),
     raddr_a |-> GetField(buf, 45, 5), reg |-> GetField(buf, 50, 1),
     rel |-> GetField(buf, 51, 1), cond_br |-> GetField(buf, 52, 4),
     dontcare |-> GetField(buf, 56, 4), sig |-> GetField(buf, 60, 4)]

\* AluInsn.from_buffer_copy
AluFields(buf) ==
    [mul_b |-> GetField(buf, 0, 3), mul_a |-> GetField(buf, 3, 3),
     add_b |-> GetField(buf, 6, 3), add_a |-> GetField(buf, 9, 3),
     raddr_b |-> GetField(buf, 12, 6), raddr_a |-> GetField(buf, 18, 6),
     op_add |-> GetField(buf, 24, 5), op_mul |-> GetField(buf, 29, 3),
     waddr_mul |-> GetField(buf, 32, 6), waddr_add |-> GetField(buf, 38, 6),
     ws |-> GetField(buf, 44, 1), sf |-> GetField(buf, 45, 1),
     cond_mul |-> GetField(buf, 46, 3), cond_add |-> GetField(buf, 49, 3),
     pack |-> GetField(buf, 52, 4), pm |-> GetField(buf, 56, 1),
     unpack |-> GetField(buf, 57, 3), sig |-> GetField(buf, 60, 4)]

SIGNALING_BITS(sig) ==
    CASE sig = "breakpoint" -> 0
      [] sig = "no signal" -> 1
      [] sig = "thread switch" -> 2
      [] sig = "thread end" -> 3
      [] sig = "wait scoreboard" -> 4
      [] sig = "unlock scoreboard" -> 5
      [] sig = "last thread switch" -> 6
      [] sig = "load coverage" -> 7
      [] sig = "load color" -> 8
      [] sig = "load color and thread end" -> 9
      [] sig = "load tmu0" -> 10
      [] sig = "load tmu1" -> 11
      [] sig = "load alpha" -> 12
      [] sig = "alu small imm" -> 13
      [] sig = "load" -> 14
      [] sig = "branch" -> 15

\* which Structure Assembler.get_insn reads a stored word as
get_insn_layout(buf) ==
    LET sig == GetField(buf, 60, 4)
    IN  IF sig = SIGNALING_BITS("branch") THEN "BranchInsn"
        ELSE IF sig = SIGNALING_BITS("load") THEN "LoadInsn"
        ELSE "AluInsn"

(***************************************************************************)
(* The Assembler object.  Its methods are functions of the object state    *)
(* st = [insns, pc, labels, backpatch_list]; each returns the state it     *)
(* leaves behind and the error it raised ("none" when it returned).        *)
(***************************************************************************)
AsmState ==
    [insns |-> insns, pc |-> pc, labels |-> labels,
     backpatch_list |-> backpatch_list]

NewAssembler ==
    [insns |-> <<>>, pc |-> 0, labels |-> [n \in {} |-> 0],
     backpatch_list |-> <<>>]

\* a variant of emit that appends without advancing the PC
emit_keep_pc(st, insn, increment) ==
    IF increment
    THEN [st EXCEPT !.insns = Append(@, insn)]
    ELSE [st EXCEPT !.insns = [@ EXCEPT ![Len(@)] = insn]]

\* a variant of emit that appends whatever `increment` says
emit_always_append(st, insn, increment) ==
    [st EXCEPT !.insns = Append(@, insn), !.pc = @ + 8]

\* Assembler.emit(insn, increment)
emit(st, insn, increment) ==
    IF increment
    THEN [st EXCEPT !.insns = Append(@, insn), !.pc = @ + 8]
    ELSE [st EXCEPT !.insns = [@ EXCEPT ![Len(@)] = insn]]

MulInsnEmitter(op_add, add_dst, add_opd1, add_opd2, sig, set_flags) ==
    [held |-> TRUE, op_add |-> op_add, add_dst |-> add_dst,
     add_opd1 |-> add_opd1, add_opd2 |-> add_opd2, sig |-> sig,
     set_flags |-> set_flags]

NoEmitter ==
    [held |-> FALSE, op_add |-> 0, add_dst |-> null, add_opd1 |-> r0,
     add_opd2 |-> r0, sig |-> "no signal", set_flags |-> FALSE]

\* the check that an unpack and a pack present together agree on pm
ModifierConflict(unpack, read_pm, pack, write_pm) ==
    unpack # 0 /\ pack # 0 /\ read_pm # write_pm

\* the pm of a word from the read and write placements
ModifierPm(unpack, read_pm, pack, write_pm) ==
    IF unpack # 0 /\ pack = 0 THEN B2I(read_pm)
    ELSE IF pack # 0 /\ unpack = 0 THEN B2I(write_pm)
    ELSE 0

Outcome(st, err, em) == [st |-> st, err |-> err, em |-> em]

\* the body of add_insn on the placements rd of its read operands and wr
\* of its destination
add_insn_placed(st, c, rd, wr) ==
    LET sig == IF rd.kind = "ok" /\ rd.immed THEN "alu small imm" ELSE c.sig
        set_flags == IF c.name = "nop" THEN FALSE ELSE c.set_flags
        pm == ModifierPm(rd.unpack, rd.pm, wr.pack, wr.pm)
        word == AluInsn([sig |-> SIGNALING_BITS(sig), unpack |-> rd.unpack,
                    pm |-> pm, pack |-> wr.pack, cond_add |-> 1,
                    cond_mul |-> 1, sf |-> B2I(set_flags), ws |-> B2I(wr.ws),
                    op_add |-> c.opcode, op_mul |-> 0,
                    waddr_add |-> wr.waddr_add, waddr_mul |-> wr.waddr_mul,
                    raddr_a |-> rd.raddr_a, raddr_b |-> rd.raddr_b,
                    add_a |-> rd.mux[1], add_b |-> rd.mux[2],
                    mul_a |-> rd.mux[3], mul_b |-> rd.mux[4]])
    IN  IF rd.kind = "error" THEN Outcome(st, rd.err, NoEmitter)
        ELSE IF rd.immed /\ c.sig # "no signal"
             THEN Outcome(st, "SignalConflictsWithImmediate", NoEmitter)
        ELSE IF wr.kind = "error" THEN Outcome(st, wr.err, NoEmitter)
        ELSE IF ModifierConflict(rd.unpack, rd.pm, wr.pack, wr.pm)
             THEN Outcome(st, "InvalidPackUnpackCombination", NoEmitter)
        ELSE Outcome(emit(st, word, TRUE), "none",
                     MulInsnEmitter(c.opcode, c.dst, c.opd1, c.opd2, sig,
                                    set_flags))

\* Assembler.add_insn(name, opcode, dst, opd1, opd2, sig, set_flags)
add_insn(st, c) ==
    add_insn_placed(st, c, locate_read_operands(c.opd1, c.opd2, r0, r0),
                    locate_write_operands(c.dst, null))

\* the rotate argument of a mul mnemonic: 0, an integer or a register
RotateGiven(rotate) == ~(rotate.kind = "int" /\ rotate.n = 0)

RotateIsR5(rotate) == rotate.kind = "reg" /\ rotate = r5

\* the body of assemble on the placements rd of the four read operands and
\* wr of the two destinations; line 568 names `sig`, which is not bound
\* there, so the signal check ends in a NameError
assemble_placed(st, em, m, rd, wr) ==
    LET pm == ModifierPm(rd.unpack, rd.pm, wr.pack, wr.pm)
        small == rd.immed \/ RotateGiven(m.rotate)
        sig == IF small THEN "alu small imm" ELSE em.sig
        em2 == [em EXCEPT !.sig = sig]
        raddr_b == IF ~RotateGiven(m.rotate) THEN rd.raddr_b
                   ELSE IF RotateIsR5(m.rotate) THEN 48
                   ELSE 48 + m.rotate.n
        word == AluInsn([sig |-> SIGNALING_BITS(sig), unpack |-> rd.unpack,
                    pm |-> pm, pack |-> wr.pack, sf |-> B2I(em.set_flags),
                    ws |-> B2I(wr.ws), cond_add |-> 1, cond_mul |-> 1,
                    op_add |-> em.op_add, op_mul |-> m.op_mul,
                    waddr_add |-> wr.waddr_add, waddr_mul |-> wr.waddr_mul,
                    raddr_a |-> rd.raddr_a, raddr_b |-> raddr_b,
                    add_a |-> rd.mux[1], add_b |-> rd.mux[2],
                    mul_a |-> rd.mux[3], mul_b |-> rd.mux[4]])
    IN  IF rd.kind = "error" THEN Outcome(st, rd.err, em)
        ELSE IF wr.kind = "error" THEN Outcome(st, wr.err, em)
        ELSE IF ModifierConflict(rd.unpack, rd.pm, wr.pack, wr.pm)
             THEN Outcome(st, "InvalidPackUnpackCombination", em)
        ELSE IF small /\ em.sig # "no signal"
             THEN Outcome(st, "NameError", em)
        ELSE IF RotateGiven(m.rotate) /\ rd.immed
             THEN Outcome(st, "RotateWithImmediate", em2)
        ELSE IF RotateGiven(m.rotate) /\ ~(rd.mux[3] < 3 /\ rd.mux[4] < 3)
             THEN Outcome(st, "RotateOperandRestriction", em2)
        ELSE IF RotateGiven(m.rotate) /\ ~RotateIsR5(m.rotate)
                /\ ~(m.rotate.kind = "int" /\ m.rotate.n \in 1..15)
             THEN Outcome(st, "InvalidRotation", em2)
        ELSE Outcome(emit(st, word, FALSE), "none", em2)

\* MulInsnEmitter.assemble(op_mul, mul_dst, mul_opd1, mul_opd2, rotate) on
\* the emitter em
assemble(st, em, m) ==
    assemble_placed(st, em, m,
                    locate_read_operands(em.add_opd1, em.add_opd2,
                                         m.mul_opd1, m.mul_opd2),
                    locate_write_operands(em.add_dst, m.mul_dst))

NopCall ==
    [name |-> "nop", opcode |-> 0, dst |-> null, opd1 |-> r0, opd2 |-> r0,
     sig |-> "no signal", set_flags |-> TRUE]

\* Assembler.mul_insn(name, ...): getattr(self.nop(), name)(...)
binder_call(a, m) == assemble(a.st, a.em, m)

mul_insn(st, m) == binder_call(add_insn(st, NopCall), m)

\* a list of per-element immediates
VecVal(lanes) == [kind |-> "vec", lanes |-> lanes]

\* values.extend([0] * (16 - len(values)))
PadLanes(values) == values \o [j \in 1..(16 - Len(values)) |-> 0]

\* any(map(lambda x: x < 0, values))
AnyNegative(values) == \E j \in 1..Len(values) : values[j] < 0

Word32Exchanged(high, low) ==
    IF low >= 32768 THEN (low - 65536) * 65536 + high ELSE low * 65536 + high

\* (high << 16) | low, kept as the signed value with the same bits
Word32(high, low) ==
    IF high >= 32768 THEN (high - 65536) * 65536 + low ELSE high * 65536 + low

\* the loop of pack_imm over lanes i..16 (lane 1 is values[0])
RECURSIVE PackLanes(_, _, _, _, _)
PackLanes(values, signed, i, high, low) ==
    IF i > 16 THEN [kind |-> "ok", high |-> high, low |-> low]
    ELSE IF \/ signed /\ (values[i] >= 2 \/ values[i] < -2)
            \/ ~signed /\ values[i] >= 4
         THEN Failure("NotTwoBit")
         ELSE PackLanes(values, signed, i + 1,
                        2 * high + ((values[i] % 4) \div 2),
                        2 * low + (values[i] % 2))

\* the per-element part of pack_imm
pack_imm_lanes(signed, r) ==
    IF r.kind = "error" THEN r
    ELSE [kind |-> "ok", imm |-> Word32(r.high, r.low),
          unpack |-> 2 * B2I(~signed) + 1]

\* pack_imm(val): a scalar integer gives its 32-bit two's complement word,
\* kept as the signed value with the same bits, and unpack 0; a list gives
\* the per-element word
pack_imm(val) ==
    IF val.kind = "int" THEN [kind |-> "ok", imm |-> val.n, unpack |-> 0]
    ELSE IF val.kind # "vec" THEN Failure("UnsupportedImmediate")
    ELSE IF Len(val.lanes) > 16 THEN Failure("TooManyValues")
    ELSE pack_imm_lanes(AnyNegative(PadLanes(val.lanes)),
                        PackLanes(PadLanes(val.lanes),
                                  AnyNegative(PadLanes(val.lanes)), 1, 0, 0))

\* Assembler.ldi(reg1, imm) and Assembler.ldi(reg1, reg2, imm)
ldi(st, c) ==
    LET fits == HasSpec(c.reg1.spec, _REG_AW) /\ HasSpec(c.reg2.spec, _REG_BW)
        reg1 == IF fits THEN c.reg1 ELSE c.reg2
        reg2 == IF fits THEN c.reg2 ELSE c.reg1
        pk == pack_imm(c.imm)
        word == LoadInsn([sig |-> 14, unpack |-> pk.unpack, pm |-> 0,
                    pack |-> 0, cond_add |-> 1, cond_mul |-> 1, sf |-> 0,
                    ws |-> 0, waddr_add |-> reg1.addr,
                    waddr_mul |-> reg2.addr, immediate |-> pk.imm])
    IN  IF ~HasSpec(reg1.spec, _REG_AW)
        THEN Outcome(st, "BadDestinationFile", NoEmitter)
        ELSE IF ~HasSpec(reg2.spec, _REG_BW)
             THEN Outcome(st, "BadDestinationFile", NoEmitter)
        ELSE IF pk.kind = "error" THEN Outcome(st, pk.err, NoEmitter)
        ELSE Outcome(emit(st, word, TRUE), "none", NoEmitter)

\* a branch target: a label name or an integer
LabelTarget(name) == [kind |-> "label", name |-> name]

\* the reg argument of a branch when it is not given
NoReg == [kind |-> "none"]

\* Assembler.branch_insn(cond_br, target, reg, link)
branch_insn(st, c) ==
    LET relative == c.target.kind = "label"
        st1 == IF relative
               THEN [st EXCEPT !.backpatch_list =
                                   Append(@, <<st.pc, c.target.name>>)]
               ELSE st
        imm == IF relative THEN 0 ELSE c.target.n
        use_reg == c.reg.kind = "reg"
        raddr_a == IF use_reg THEN c.reg.addr ELSE 0
        wr == locate_write_operands(c.link, null)
        word == BranchInsn([sig |-> 15, cond_br |-> c.cond_br,
                    rel |-> B2I(relative), reg |-> B2I(use_reg),
                    raddr_a |-> raddr_a, ws |-> B2I(wr.ws),
                    waddr_add |-> wr.waddr_add, waddr_mul |-> wr.waddr_mul,
                    immediate |-> imm, dontcare |-> 0])
    IN  IF c.target.kind \notin {"label", "int"}
        THEN Outcome(st, "InvalidBranchTarget", NoEmitter)
        ELSE IF use_reg /\ ~HasSpec(c.reg.spec, _REG_AR)
             THEN Outcome(st1, "MustBeRegfileA", NoEmitter)
        ELSE IF wr.kind = "error" THEN Outcome(st1, wr.err, NoEmitter)
        ELSE IF wr.pack # 0 \/ wr.pm
             THEN Outcome(st1, "PackingWithBranch", NoEmitter)
        ELSE Outcome(emit(st1, word, TRUE), "none", NoEmitter)

\* a variant of label without the duplicate check: a later declaration
\* replaces the recorded PC
label_overwrite(st, name) ==
    Outcome([st EXCEPT !.labels =
                 [n \in DOMAIN st.labels \cup {name} |->
                     IF n = name THEN st.pc ELSE st.labels[n]]],
            "none", NoEmitter)

\* Assembler.label(name)
label(st, name) ==
    IF name \in DOMAIN st.labels
    THEN Outcome(st, "DuplicateLabel", NoEmitter)
    ELSE Outcome([st EXCEPT !.labels =
                      [n \in DOMAIN st.labels \cup {name} |->
                          IF n = name THEN st.pc ELSE st.labels[n]]],
                 "none", NoEmitter)

\* Assembler.sema_insn(sa, sema_id)
sema_insn(st, sa, sema_id) ==
    IF ~(0 <= sema_id /\ sema_id <= 15)
    THEN Outcome(st, "BadSemaphoreId", NoEmitter)
    ELSE Outcome(emit(st, SemaInsn([sig |-> 14, unpack |-> 4, pm |-> 0,
                     pack |-> 0, cond_add |-> 1, cond_mul |-> 1, sf |-> 0,
                     ws |-> 0, waddr_add |-> 0, waddr_mul |-> 0, sa |-> sa,
                     semaphore |-> sema_id, dontcare |-> 0]), TRUE),
                 "none", NoEmitter)

\* a variant of Displacement that leaves out the 4 words of pipeline delay
DisplacementNoDelay(target_pc, insn_pc) == target_pc - insn_pc

\* the displacement backpatch writes: the target relative to the branch's
\* PC plus 4 words
Displacement(target_pc, insn_pc) == target_pc - (insn_pc + 4 * 8)

\* one iteration of the loop of Assembler.backpatch on the entry
\* <<insn_pc, label>>; the assert on the fetched instruction is on
BackpatchStep(o, entry) ==
    LET insn_pc == entry[1]
        name == entry[2]
        st == o.st
        idx == (insn_pc \div 8) + 1
        insn == BranchFields(st.insns[idx])
        patched == [insn EXCEPT
                       !.immediate = Displacement(st.labels[name], insn_pc)]
    IN  IF o.err # "none" THEN o
        ELSE IF name \notin DOMAIN st.labels
             THEN [o EXCEPT !.err = "UndefinedLabel"]
        ELSE IF idx > Len(st.insns) THEN [o EXCEPT !.err = "IndexError"]
        ELSE IF get_insn_layout(st.insns[idx]) # "BranchInsn"
             THEN [o EXCEPT !.err = "AssertionError"]
        ELSE [o EXCEPT !.st.insns[idx] = BranchInsn(patched)]

RECURSIVE BackpatchLoop(_, _)
BackpatchLoop(o, entries) ==
    IF entries = <<>> THEN o
    ELSE BackpatchLoop(BackpatchStep(o, Head(entries)), Tail(entries))

\* Assembler.backpatch
clear_pending(o) ==
    IF o.err # "none" THEN o ELSE [o EXCEPT !.st.backpatch_list = <<>>]

backpatch(st) ==
    clear_pending(BackpatchLoop(Outcome(st, "none", NoEmitter),
                                st.backpatch_list))

\* ''.join(self.insns)
RECURSIVE JoinBytes(_)
JoinBytes(words) ==
    IF words = <<>> THEN <<>> ELSE Head(words) \o JoinBytes(Tail(words))

\* Assembler.getcode: the outcome of backpatch and the bytes returned
join_insns(o) ==
    [st |-> o.st, err |-> o.err,
     ret |-> IF o.err = "none" THEN JoinBytes(o.st.insns) ELSE <<>>]

getcode(st) == join_insns(backpatch(st))

\* Assembler.mov(dst, src): bor(dst, src, 0)
MovCall(dst, src) ==
    [name |-> "bor", opcode |-> 21, dst |-> dst, opd1 |-> src,
     opd2 |-> IntVal(0), sig |-> "no signal", set_flags |-> TRUE]

mov(st, dst, src) == add_insn(st, MovCall(dst, src))

\* Assembler.read(src)
read(st, src) == mov(st, null, src)

\* Assembler.write(dst)
write(st, dst) == mov(st, dst, null)

\* Assembler.interrupt
interrupt(st) == write(st, host_interrupt)

\* Assembler.exit: interrupt; nop(sig = 'thread end'); nop; nop
\* the next statement of a method body: skipped when the one before raised
then_nop(o, sig) ==
    IF o.err # "none" THEN o
    ELSE add_insn(o.st, [NopCall EXCEPT !.sig = sig])

drop_binder(o) == Outcome(o.st, o.err, NoEmitter)

exit(st) ==
    drop_binder(then_nop(then_nop(then_nop(interrupt(st), "thread end"),
                                  "no signal"), "no signal"))

(***************************************************************************)
(* The front end: one action per call on the assembler.  A call that       *)
(* raises is a step too: it leaves whatever the method had already done.   *)
(***************************************************************************)
SetAsm(st) ==
    /\ insns' = st.insns
    /\ pc' = st.pc
    /\ labels' = st.labels
    /\ backpatch_list' = st.backpatch_list

Called(op, call, err) == [op |-> op, call |-> call, err |-> err, ret |-> <<>>]

NoCall == [kind |-> "none"]

Init ==
    /\ insns = NewAssembler.insns
    /\ pc = NewAssembler.pc
    /\ labels = NewAssembler.labels
    /\ backpatch_list = NewAssembler.backpatch_list
    /\ emitter = NoEmitter
    /\ branched = {}
    /\ last = Called("new", NoCall, "none")

\* assemble() calls getcode last, after the program function has returned;
\* only getcode is called again on a finalized assembler
Finalized == last.op = "getcode"

\* an add-pipe mnemonic; the front end keeps the returned binder or drops it
AddInsn(c, keep) ==
    /\ ~Finalized
    /\ Len(insns) < MaxInsns
    /\ \E o \in {add_insn(AsmState, c)} :
           /\ SetAsm(o.st)
           /\ emitter' = IF o.err = "none" /\ keep THEN o.em ELSE emitter
           /\ last' = Called("add_insn", c, o.err)
    /\ UNCHANGED branched

\* a mul mnemonic on the binder the front end holds
MulBind(m) ==
    /\ ~Finalized
    /\ emitter.held
    /\ \E o \in {assemble(AsmState, emitter, m)} :
           /\ SetAsm(o.st)
           /\ emitter' = o.em
           /\ last' = Called("assemble", m, o.err)
    /\ UNCHANGED branched

\* a standalone mul mnemonic
MulInsn(m) ==
    /\ ~Finalized
    /\ Len(insns) < MaxInsns
    /\ \E o \in {mul_insn(AsmState, m)} :
           /\ SetAsm(o.st)
           /\ last' = Called("mul_insn", m, o.err)
    /\ UNCHANGED <<emitter, branched>>

Ldi(c) ==
    /\ ~Finalized
    /\ Len(insns) < MaxInsns
    /\ \E o \in {ldi(AsmState, c)} :
           /\ SetAsm(o.st)
           /\ last' = Called("ldi", c, o.err)
    /\ UNCHANGED <<emitter, branched>>

Branch(c) ==
    /\ ~Finalized
    /\ Len(insns) < MaxInsns
    /\ c.target.kind = "label" => Len(backpatch_list) < MaxPending
    /\ \E o \in {branch_insn(AsmState, c)} :
           /\ SetAsm(o.st)
           /\ branched' = IF o.err = "none" /\ c.target.kind = "label"
                          THEN branched \cup {<<pc, c.target.name>>}
                          ELSE branched
           /\ last' = Called("branch_insn", c, o.err)
    /\ UNCHANGED emitter

Label(name) ==
    /\ ~Finalized
    /\ \E o \in {label(AsmState, name)} :
           /\ SetAsm(o.st)
           /\ last' = Called("label", [name |-> name], o.err)
    /\ UNCHANGED <<emitter, branched>>

Sema(sa, sema_id) ==
    /\ ~Finalized
    /\ Len(insns) < MaxInsns
    /\ \E o \in {sema_insn(AsmState, sa, sema_id)} :
           /\ SetAsm(o.st)
           /\ last' = Called("sema_insn", [sa |-> sa, sema_id |-> sema_id],
                             o.err)
    /\ UNCHANGED <<emitter, branched>>

GetCode ==
    /\ \E o \in {getcode(AsmState)} :
           /\ SetAsm(o.st)
           /\ last' = [op |-> "getcode", call |-> NoCall, err |-> o.err,
                       ret |-> o.ret]
    /\ UNCHANGED <<emitter, branched>>

\* the pseudo-ops mov, read, write and interrupt: one bor word each
Mov(dst, src) ==
    /\ ~Finalized
    /\ Len(insns) < MaxInsns
    /\ \E o \in {mov(AsmState, dst, src)} :
           /\ SetAsm(o.st)
           /\ emitter' = IF o.err = "none" THEN o.em ELSE emitter
           /\ last' = Called("mov", MovCall(dst, src), o.err)
    /\ UNCHANGED branched

Read(src) ==
    /\ ~Finalized
    /\ Len(insns) < MaxInsns
    /\ \E o \in {read(AsmState, src)} :
           /\ SetAsm(o.st)
           /\ emitter' = IF o.err = "none" THEN o.em ELSE emitter
           /\ last' = Called("read", MovCall(null, src), o.err)
    /\ UNCHANGED branched

Write(dst) ==
    /\ ~Finalized
    /\ Len(insns) < MaxInsns
    /\ \E o \in {write(AsmState, dst)} :
           /\ SetAsm(o.st)
           /\ emitter' = IF o.err = "none" THEN o.em ELSE emitter
           /\ last' = Called("write", MovCall(dst, null), o.err)
    /\ UNCHANGED branched

Interrupt ==
    /\ ~Finalized
    /\ Len(insns) < MaxInsns
    /\ \E o \in {interrupt(AsmState)} :
           /\ SetAsm(o.st)
           /\ emitter' = IF o.err = "none" THEN o.em ELSE emitter
           /\ last' = Called("interrupt", MovCall(host_interrupt, null), o.err)
    /\ UNCHANGED branched

\* exit returns nothing: the binders of its four words are dropped
Exit ==
    /\ ~Finalized
    /\ Len(insns) < MaxInsns
    /\ \E o \in {exit(AsmState)} :
           /\ SetAsm(o.st)
           /\ last' = Called("exit", NoCall, o.err)
    /\ UNCHANGED <<emitter, branched>>

(***************************************************************************)
(* The calls the front end makes in the control specification: few         *)
(* distinct words, every kind of emit, labels, branches and finalize.      *)
(***************************************************************************)
\* the label names of the front end; "M" is branched to and never declared
Names == {"L", "M"}

Declared == {"L"}

AddCalls ==
    {NopCall, [NopCall EXCEPT !.sig = "branch"]}

FmulCall(dst, opd1, opd2, rotate) ==
    [op_mul |-> 1, mul_dst |-> dst, mul_opd1 |-> opd1, mul_opd2 |-> opd2,
     rotate |-> rotate]

MulCalls == {FmulCall(rb(1), r0, r1, IntVal(0))}

BranchCall(cond_br, target, reg, link) ==
    [cond_br |-> cond_br, target |-> target, reg |-> reg, link |-> link]

BranchCalls ==
    {BranchCall(15, LabelTarget("L"), NoReg, null),
     BranchCall(15, LabelTarget("L"), rb(1), null),
     BranchCall(15, LabelTarget("M"), NoReg, null),
     BranchCall(15, IntVal(16), NoReg, null)}

Next ==
    \/ \E c \in AddCalls : AddInsn(c, TRUE)
    \/ \E m \in MulCalls : MulBind(m)
    \/ \E c \in BranchCalls : Branch(c)
    \/ \E n \in Declared : Label(n)
    \/ GetCode

Spec == Init /\ [][Next]_vars

(***************************************************************************)
(* Properties of the control specification.                                *)
(***************************************************************************)
\* the low and the high 16 bits of the immediate field of a branch word
ImmediateHalves(buf) == <<GetField(buf, 0, 16), GetField(buf, 16, 16)>>

\* the low and the high 16 bits of d mod 2^32
Mod32Halves(d) == <<d % 65536, (d \div 65536) % 65536>>

WordAt(insn_pc) == insns[(insn_pc \div 8) + 1]

GetCodeReturned == last.op = "getcode" /\ last.err = "none"

\* C1: after a successful getcode every branch word emitted at PC P for the
\* label L carries the immediate (labels[L] - (P + 32)) mod 2^32
C1_BranchDisplacement ==
    GetCodeReturned =>
        \A b \in branched :
            /\ b[2] \in DOMAIN labels
            /\ ImmediateHalves(WordAt(b[1]))
                   = Mod32Halves(labels[b[2]] - (b[1] + 32))

\* C1 witness: a finalized program with a branch emitted before its label
\* was declared and a branch emitted after it
C1_Witness ==
    /\ GetCodeReturned
    /\ \E b \in branched : b[2] \in DOMAIN labels /\ labels[b[2]] > b[1]
    /\ \E b \in branched : b[2] \in DOMAIN labels /\ labels[b[2]] <= b[1]

\* a step that is the call `op` of the front end
Calls(op) == last'.op = op /\ vars' # vars

\* C5: label(name) on a new name records the current PC and changes nothing
\* else; on a declared name it fails with the duplicate-label error and
\* changes nothing; a recorded label never changes
C5_Label ==
    [][/\ Calls("label") =>
            LET name == last'.call.name
            IN  IF name \in DOMAIN labels
                THEN /\ last'.err = "DuplicateLabel"
                     /\ asm_vars' = asm_vars
                ELSE /\ last'.err = "none"
                     /\ DOMAIN labels' = DOMAIN labels \cup {name}
                     /\ labels'[name] = pc
                     /\ <<insns, pc, backpatch_list>>'
                            = <<insns, pc, backpatch_list>>
       /\ \A n \in DOMAIN labels :
            n \in DOMAIN labels' /\ labels'[n] = labels[n]]_vars

\* C5 witness: a duplicate declaration refused after the PC has moved on
\* from the PC first recorded
C5_Witness ==
    /\ last.op = "label"
    /\ last.err = "DuplicateLabel"
    /\ last.call.name \in DOMAIN labels
    /\ labels[last.call.name] < pc

\* C6: getcode fails with the undefined-label error exactly when a pending
\* entry names an undeclared label, and then returns nothing; when it
\* succeeds the pending list is empty and a second getcode returns the same
\* bytes
C6_GetCode ==
    [][Calls("getcode") =>
          /\ last'.err = "UndefinedLabel"
                <=> \E k \in 1..Len(backpatch_list) :
                        backpatch_list[k][2] \notin DOMAIN labels
          /\ last'.err = "UndefinedLabel" => last'.ret = <<>>
          /\ last'.err = "none" => backpatch_list' = <<>>
          /\ (last.op = "getcode" /\ last.err = "none")
                => last'.err = "none" /\ last'.ret = last.ret]_vars

(***************************************************************************)
(* The emit specification: every kind of call that appends a word, calls   *)
(* that raise before and after appending, the binder, labels and finalize. *)
(***************************************************************************)
AddCall(name, opcode, dst, opd1, opd2, sig, set_flags) ==
    [name |-> name, opcode |-> opcode, dst |-> dst, opd1 |-> opd1,
     opd2 |-> opd2, sig |-> sig, set_flags |-> set_flags]

\* nop(); iadd(ra1, r0, r1); iadd(ra1, r0, 1, sig = 'thread end'), which
\* raises
EmitAddCalls ==
    {NopCall,
     AddCall("iadd", 12, ra(1), r0, r1, "no signal", TRUE),
     AddCall("iadd", 12, ra(1), r0, IntVal(1), "thread end", TRUE)}

\* fmul(rb1, r0, r1); fmul(rb1, ra1, ra2), which raises after its nop
EmitMulCalls ==
    {FmulCall(rb(1), r0, r1, IntVal(0)),
     FmulCall(rb(1), ra(1), ra(2), IntVal(0))}

LdiCall(reg1, reg2, imm) == [reg1 |-> reg1, reg2 |-> reg2, imm |-> imm]

\* ldi(ra1, -1); ldi(uniform, 1), which raises
LdiCalls ==
    {LdiCall(ra(1), null, IntVal(-1)), LdiCall(uniform, null, IntVal(1))}

\* sema_up(0); sema_down(16), which raises
SemaCalls == {<<1, 0>>, <<0, 16>>}

EmitBranchCalls ==
    {BranchCall(15, LabelTarget("L"), NoReg, null),
     BranchCall(15, LabelTarget("L"), rb(1), null)}

NextEmit ==
    \/ \E c \in EmitAddCalls : AddInsn(c, TRUE)
    \/ \E m \in EmitMulCalls : MulInsn(m)
    \/ \E m \in EmitMulCalls : MulBind(m)
    \/ \E c \in LdiCalls : Ldi(c)
    \/ \E c \in EmitBranchCalls : Branch(c)
    \/ \E c \in SemaCalls : Sema(c[1], c[2])
    \/ \E n \in Declared : Label(n)
    \/ Exit
    \/ GetCode

SpecEmit == Init /\ [][NextEmit]_vars

AppendingCalls == {"add_insn", "mul_insn", "ldi", "branch_insn", "sema_insn"}

\* C2: the PC is 8 times the number of buffered words and never decreases;
\* an add-pipe mnemonic, standalone mul mnemonic, ldi, branch or semaphore
\* call that returns appends one word and advances the PC by 8; getcode
\* returns PC bytes, the buffered words in order
C2_ProgramCounter ==
    [][/\ pc = 8 * Len(insns)
       /\ pc' = 8 * Len(insns')
       /\ pc' >= pc
       /\ \A op \in AppendingCalls :
            (Calls(op) /\ last'.err = "none") =>
                /\ pc' = pc + 8
                /\ Len(insns') = Len(insns) + 1
                /\ SubSeq(insns', 1, Len(insns)) = insns
       /\ (Calls("getcode") /\ last'.err = "none") =>
                /\ Len(last'.ret) = pc'
                /\ \A k \in 1..Len(last'.ret) :
                      last'.ret[k]
                         = insns'[((k - 1) \div 8) + 1][((k - 1) % 8) + 1]]_vars

\* C2 witness: getcode has returned the bytes of a buffer of two or more
\* words that ends in a word a binder rewrote
C2_Witness ==
    /\ GetCodeReturned
    /\ Len(insns) >= 2
    /\ Len(last.ret) = pc
    /\ AluFields(insns[Len(insns)]).op_mul = 1
    /\ emitter.held

\* C3: a mul mnemonic on a binder that returns leaves the PC, the buffer
\* length, every word but the last, the labels and the pending list as they
\* were; the new last word has the add call's op_add, destination address
\* and set-flags bit, and the mul opcode and mul destination address
C3_BinderRewritesLastWord ==
    [][(Calls("assemble") /\ last'.err = "none") =>
          /\ pc' = pc
          /\ Len(insns') = Len(insns)
          /\ \A i \in 1..(Len(insns) - 1) : insns'[i] = insns[i]
          /\ labels' = labels
          /\ backpatch_list' = backpatch_list
          /\ AluFields(insns'[Len(insns')]).op_add = emitter.op_add
          /\ AluFields(insns'[Len(insns')]).waddr_add = emitter.add_dst.addr
          /\ AluFields(insns'[Len(insns')]).sf = B2I(emitter.set_flags)
          /\ AluFields(insns'[Len(insns')]).op_mul = last'.call.op_mul
          /\ AluFields(insns'[Len(insns')]).waddr_mul
                 = last'.call.mul_dst.addr]_vars

\* C3 witness: the binder of an iadd has rewritten the second word of a
\* program that has a label and a pending branch
C3_Witness ==
    /\ last.op = "assemble"
    /\ last.err = "none"
    /\ Len(insns) >= 2
    /\ emitter.op_add = 12
    /\ AluFields(insns[Len(insns)]).op_add = 12
    /\ AluFields(insns[Len(insns)]).op_mul = 1
    /\ DOMAIN labels # {}
    /\ backpatch_list # <<>>

(***************************************************************************)
(* The ALU specification: add-pipe and mul mnemonics over registers of     *)
(* both files, accumulators, small immediates, signals and rotates, the    *)
(* binder, and the pseudo-ops mov, read, write, interrupt and exit.        *)
(***************************************************************************)
\* the words an ALU program may hold before an appending call
MaxAluInsns == 1

AluRoom == Len(insns) < MaxAluInsns

AluAddCalls ==
    {NopCall,
     AddCall("iadd", 12, ra(1), r0, r1, "no signal", TRUE),
     AddCall("iadd", 12, rb(1), ra(2), r0, "no signal", FALSE),
     AddCall("iadd", 12, ra(1), r0, IntVal(1), "no signal", TRUE),
     AddCall("iadd", 12, ra(1), r0, IntVal(1), "thread end", TRUE),
     AddCall("iadd", 12, ra(1), r0, r1, "thread end", TRUE),
     AddCall("iadd", 12, null, rb(39), FloatVal(1, 7), "no signal", TRUE),
     AddCall("iadd", 12, ra(1), rb(1), r0, "no signal", TRUE)}

AluMulCalls ==
    {FmulCall(rb(2), r0, r1, IntVal(0)),
     FmulCall(ra(2), r2, r3, IntVal(0)),
     FmulCall(rb(2), ra(1), r1, IntVal(0)),
     FmulCall(rb(2), r0, FloatVal(1, 1), IntVal(0)),
     FmulCall(rb(2), r0, r1, IntVal(3)),
     FmulCall(rb(2), r0, r1, r5),
     FmulCall(rb(2), r0, r1, IntVal(16))}

NextAlu ==
    \/ AluRoom /\ \E c \in AluAddCalls : AddInsn(c, TRUE)
    \/ \E m \in AluMulCalls : MulBind(m)
    \/ AluRoom /\ \E m \in AluMulCalls : MulInsn(m)
    \/ AluRoom /\ \E src \in {r1, rb(1), uniform} : Mov(ra(1), src)
    \/ AluRoom /\ \E src \in {uniform, ra(39)} : Read(src)
    \/ AluRoom /\ \E dst \in {ra(1), rb(1)} : Write(dst)
    \/ AluRoom /\ Interrupt
    \/ AluRoom /\ Exit
    \/ GetCode

SpecAlu == Init /\ [][NextAlu]_vars

\* the operands of the binder's add call and of the mul call m are
\* placeable together and m has no rotate
Placeable(em, m) ==
    /\ ~RotateGiven(m.rotate)
    /\ locate_read_operands(em.add_opd1, em.add_opd2,
                            m.mul_opd1, m.mul_opd2).kind = "ok"
    /\ locate_write_operands(em.add_dst, m.mul_dst).kind = "ok"

\* C4: an ALU mnemonic fails with the signal-conflict error only when the
\* caller gave a signal other than 'no signal' with a small immediate; a mul
\* mnemonic with placeable operands on the binder of an add-pipe call that
\* has a small-immediate operand returns and leaves a word with sig 13
C4_SignalConflict ==
    [][/\ last'.err = "SignalConflictsWithImmediate" /\ vars' # vars
            => /\ last'.call.sig # "no signal"
               /\ IsImmediate(last'.call.opd1) \/ IsImmediate(last'.call.opd2)
       /\ (/\ Calls("assemble")
           /\ IsImmediate(emitter.add_opd1) \/ IsImmediate(emitter.add_opd2)
           /\ Placeable(emitter, last'.call))
            => /\ last'.err = "none"
               /\ AluFields(insns'[Len(insns')]).sig = 13]_vars

\* the ALU words the last call wrote, each with the four operands it encodes
EmittedAlu ==
    IF last.op \in {"add_insn", "mov", "read", "write", "interrupt"}
       /\ last.err = "none"
    THEN {[idx |-> Len(insns),
           opds |-> <<last.call.opd1, last.call.opd2, r0, r0>>]}
    ELSE IF last.op = "assemble" /\ last.err = "none"
    THEN {[idx |-> Len(insns),
           opds |-> <<emitter.add_opd1, emitter.add_opd2,
                      last.call.mul_opd1, last.call.mul_opd2>>]}
    ELSE IF last.op = "mul_insn" /\ last.err = "none"
    THEN {[idx |-> Len(insns),
           opds |-> <<r0, r0, last.call.mul_opd1, last.call.mul_opd2>>]}
    ELSE IF last.op = "mul_insn"
    THEN {[idx |-> Len(insns), opds |-> <<r0, r0, r0, r0>>]}
    ELSE IF last.op = "exit" /\ last.err = "none"
    THEN {[idx |-> Len(insns) - 3, opds |-> <<null, IntVal(0), r0, r0>>]}
         \cup {[idx |-> Len(insns) - k, opds |-> <<r0, r0, r0, r0>>] :
                  k \in 0..2}
    ELSE {}

MuxFields(buf) ==
    <<AluFields(buf).add_a, AluFields(buf).add_b,
      AluFields(buf).mul_a, AluFields(buf).mul_b>>

\* C10 as stated: in every ALU word written the mux fields are in 0..7, a
\* mux field 6 comes with raddr_a other than 39 and a mux field 7 with
\* raddr_b other than 39
C10_MuxNeverNull ==
    \A w \in EmittedAlu :
        \A i \in 1..4 :
            /\ MuxFields(insns[w.idx])[i] \in 0..7
            /\ MuxFields(insns[w.idx])[i] = INPUT_MUX_REGFILE_A
                  => AluFields(insns[w.idx]).raddr_a # null.addr
            /\ MuxFields(insns[w.idx])[i] = INPUT_MUX_REGFILE_B
                  => AluFields(insns[w.idx]).raddr_b # null.addr

\* C10 amended: in every ALU word written the mux fields are in 0..7; a mux
\* field 6 comes with raddr_a = 39 only for an operand that is a register
\* of address 39, and a mux field 7 with raddr_b = 39 only for an operand
\* that is a register of address 39 or the small immediate coded 39
C10_MuxNullOnlyForAddress39 ==
    \A w \in EmittedAlu :
        \A i \in 1..4 :
            /\ MuxFields(insns[w.idx])[i] \in 0..7
            /\ (/\ MuxFields(insns[w.idx])[i] = INPUT_MUX_REGFILE_A
                /\ AluFields(insns[w.idx]).raddr_a = null.addr)
                  => IsRegister(w.opds[i]) /\ w.opds[i].addr = null.addr
            /\ (/\ MuxFields(insns[w.idx])[i] = INPUT_MUX_REGFILE_B
                /\ AluFields(insns[w.idx]).raddr_b = null.addr)
                  => IF IsRegister(w.opds[i])
                     THEN w.opds[i].addr = null.addr
                     ELSE SMALL_IMMEDIATES(w.opds[i]) = null.addr

\* C10 witness: write(dst) has written a word that reads null through
\* regfile A, mux 6 with raddr_a = 39
C10_Witness ==
    /\ last.op = "write"
    /\ last.err = "none"
    /\ last.call.opd1 = null
    /\ AluFields(insns[Len(insns)]).add_a = INPUT_MUX_REGFILE_A
    /\ AluFields(insns[Len(insns)]).raddr_a = null.addr

(***************************************************************************)
(* locate_read_operands as a function of its four operands: the            *)
(* specification draws the operands and applies the function once.         *)
(***************************************************************************)
ReadOperands ==
    {r0, r1, r4, ra(1), ra(2), rb(1), rb(2), uniform, null,
     IntVal(1), FloatVal(1, 0),
     RegUnpack(ra(1), 1), RegUnpack(ra(1), 2), RegUnpack(r4, 1),
     RegPack(ra(1), 1, FALSE)}

ReadCall(add1, add2, mul1, mul2) ==
    [add1 |-> add1, add2 |-> add2, mul1 |-> mul1, mul2 |-> mul2]

InitRead ==
    /\ insns = NewAssembler.insns
    /\ pc = NewAssembler.pc
    /\ labels = NewAssembler.labels
    /\ backpatch_list = NewAssembler.backpatch_list
    /\ emitter = NoEmitter
    /\ branched = {}
    /\ \E a \in ReadOperands, b \in ReadOperands,
          c \in ReadOperands, d \in ReadOperands :
          last = [op |-> "locate_read_operands", call |-> ReadCall(a, b, c, d),
                  err |-> "pending", ret |-> <<>>]

LocateRead ==
    /\ last.op = "locate_read_operands"
    /\ last.err = "pending"
    /\ LET r == locate_read_operands(last.call.add1, last.call.add2,
                                     last.call.mul1, last.call.mul2)
       IN  last' = [last EXCEPT
                       !.err = IF r.kind = "error" THEN r.err ELSE "none",
                       !.ret = r]
    /\ UNCHANGED <<asm_vars, emitter, branched>>

NextRead == LocateRead

SpecRead == InitRead /\ [][NextRead]_vars

ReadDone == last.op = "locate_read_operands" /\ last.err # "pending"

ReadArgs == <<last.call.add1, last.call.add2, last.call.mul1, last.call.mul2>>

\* a register, not an accumulator, that only regfile B can read
IsBOnly(opd) ==
    /\ IsRegister(opd)
    /\ ~IsAccumulator(opd)
    /\ HasSpec(opd.spec, _REG_BR)
    /\ ~HasSpec(opd.spec, _REG_AR)

\* a register, not an accumulator, that both regfiles can read
IsBothFile(opd) ==
    /\ IsRegister(opd)
    /\ ~IsAccumulator(opd)
    /\ HasSpec(opd.spec, _REG_BR)
    /\ HasSpec(opd.spec, _REG_AR)

\* C7: locate_read_operands fails whenever the operands hold a small
\* immediate and a register only regfile B can read; when it succeeds with
\* immed set, every operand on raddr_b is the immediate coded raddr_b
C7_ImmediateWithRegfileB ==
    ReadDone =>
        /\ (\E i, j \in 1..4 : IsImmediate(ReadArgs[i]) /\ IsBOnly(ReadArgs[j]))
              => last.err # "none"
        /\ (last.err = "none" /\ last.ret.immed)
              => \A i \in 1..4 :
                    last.ret.mux[i] = INPUT_MUX_REGFILE_B
                       => /\ IsImmediate(ReadArgs[i])
                          /\ SMALL_IMMEDIATES(ReadArgs[i]) = last.ret.raddr_b

\* C8: operands that both regfiles can read are placed on an empty file or
\* on a file already committed to their address, so that a call whose
\* operands are accumulators and such registers succeeds exactly when the
\* registers have at most two different addresses; three or four
\* occurrences of one such register are placeable
C8_BothFileOperands ==
    (ReadDone /\ \A i \in 1..4 :
                    IsAccumulator(ReadArgs[i])
                    \/ (IsBothFile(ReadArgs[i])
                        /\ ReadArgs[i].pack_bits = 0))
        => /\ last.err = "none"
                <=> Cardinality({ReadArgs[i].addr : i \in
                        {j \in 1..4 : IsBothFile(ReadArgs[j])}}) <= 2
           /\ last.err = "none" =>
                \A i \in 1..4 : IsBothFile(ReadArgs[i]) =>
                    \/ /\ last.ret.mux[i] = INPUT_MUX_REGFILE_A
                       /\ last.ret.raddr_a = ReadArgs[i].addr
                    \/ /\ last.ret.mux[i] = INPUT_MUX_REGFILE_B
                       /\ last.ret.raddr_b = ReadArgs[i].addr

IsUnpacking(opd) == IsRegister(opd) /\ opd.unpack_bits # 0

\* C9: locate_read_operands rejects operands with two different unpack
\* codes and unpacking operands that disagree on pm; when it succeeds the
\* unpack code and pm it returns are those of every unpacking operand
C9_OneUnpack ==
    ReadDone =>
        /\ (\E i, j \in 1..4 :
               /\ IsUnpacking(ReadArgs[i]) /\ IsUnpacking(ReadArgs[j])
               /\ \/ ReadArgs[i].unpack_bits # ReadArgs[j].unpack_bits
                  \/ ReadArgs[i].pm_bits # ReadArgs[j].pm_bits)
              => last.err # "none"
        /\ last.err = "none" =>
              \A i \in 1..4 : IsUnpacking(ReadArgs[i]) =>
                 /\ last.ret.unpack = ReadArgs[i].unpack_bits
                 /\ last.ret.pm = ReadArgs[i].pm_bits

(***************************************************************************)
(* locate_write_operands as a function of its two destinations.            *)
(***************************************************************************)
WriteOperands ==
    {ra(1), rb(2), null, r0, uniform, r4, host_interrupt,
     RegPack(ra(1), 1, FALSE), RegPack(null, 1, FALSE),
     RegPack(rb(1), 4, TRUE), RegPack(null, 4, TRUE)}

WriteCall(add_dst, mul_dst) == [add_dst |-> add_dst, mul_dst |-> mul_dst]

InitWrite ==
    /\ insns = NewAssembler.insns
    /\ pc = NewAssembler.pc
    /\ labels = NewAssembler.labels
    /\ backpatch_list = NewAssembler.backpatch_list
    /\ emitter = NoEmitter
    /\ branched = {}
    /\ \E a \in WriteOperands, b \in WriteOperands :
          last = [op |-> "locate_write_operands", call |-> WriteCall(a, b),
                  err |-> "pending", ret |-> <<>>]

LocateWrite ==
    /\ last.op = "locate_write_operands"
    /\ last.err = "pending"
    /\ \E r \in {locate_write_operands(last.call.add_dst, last.call.mul_dst)} :
          last' = [last EXCEPT
                      !.err = IF r.kind = "error" THEN r.err ELSE "none",
                      !.ret = r]
    /\ UNCHANGED <<asm_vars, emitter, branched>>

NextWrite == LocateWrite

SpecWrite == InitWrite /\ [][NextWrite]_vars

WriteDone == last.op = "locate_write_operands" /\ last.err # "pending"

\* C12: locate_write_operands fails with too-many-packing when both
\* destinations carry a pack code; otherwise it returns ws = false when
\* add_dst is A-writable and mul_dst B-writable, else ws = true when mul_dst
\* is A-writable and add_dst B-writable, else fails with the
\* bad-destination error; waddr_add and waddr_mul are the addresses of
\* add_dst and mul_dst
C12_WriteSwap ==
    WriteDone =>
        LET a == last.call.add_dst
            m == last.call.mul_dst
            straight == HasSpec(a.spec, _REG_AW) /\ HasSpec(m.spec, _REG_BW)
            swapped == HasSpec(m.spec, _REG_AW) /\ HasSpec(a.spec, _REG_BW)
        IN  /\ (a.pack_bits # 0 /\ m.pack_bits # 0)
                  => last.err = "TooManyPacking"
            /\ ~(a.pack_bits # 0 /\ m.pack_bits # 0) =>
                  /\ straight => last.err = "none" /\ ~last.ret.ws
                  /\ (~straight /\ swapped) => last.err = "none" /\ last.ret.ws
                  /\ (~straight /\ ~swapped)
                        => last.err = "BadDestinationCombination"
            /\ last.err = "none" =>
                  /\ last.ret.waddr_add = a.addr
                  /\ last.ret.waddr_mul = m.addr

\* C12 witness: a swapped placement of destinations with different
\* addresses
C12_Witness ==
    /\ WriteDone
    /\ last.err = "none"
    /\ last.ret.ws
    /\ last.call.add_dst.addr # last.call.mul_dst.addr
    /\ last.ret.waddr_add = last.call.add_dst.addr

\* C18: when exactly one destination carries a pack code the pm returned by
\* locate_write_operands is that register's own pm flag
C18_PackPm ==
    (WriteDone /\ last.err = "none") =>
        LET a == last.call.add_dst
            m == last.call.mul_dst
        IN  /\ (a.pack_bits # 0 /\ m.pack_bits = 0)
                  => last.ret.pm = a.pm_bits
            /\ (m.pack_bits # 0 /\ a.pack_bits = 0)
                  => last.ret.pm = m.pm_bits

(***************************************************************************)
(* The modifier specification: add-pipe and mul mnemonics whose operands   *)
(* and destinations carry unpack and pack codes.                           *)
(***************************************************************************)
PackAddCalls ==
    {AddCall("iadd", 12, ra(1), r0, r1, "no signal", TRUE),
     AddCall("iadd", 12, ra(1), RegUnpack(r4, 1), r0, "no signal", TRUE),
     AddCall("iadd", 12, ra(1), RegUnpack(ra(2), 1), r0, "no signal", TRUE),
     AddCall("iadd", 12, RegPack(ra(1), 1, FALSE), r0, r1, "no signal", TRUE),
     AddCall("iadd", 12, RegPack(ra(1), 1, FALSE), RegUnpack(ra(2), 1), r0,
             "no signal", TRUE),
     AddCall("iadd", 12, RegPack(ra(1), 1, FALSE), RegUnpack(r4, 1), r0,
             "no signal", TRUE),
     AddCall("iadd", 12, RegPack(rb(1), 4, TRUE), r0, r1, "no signal", TRUE),
     AddCall("iadd", 12, ra(1), RegUnpack(r4, 2), r0, "no signal", TRUE),
     AddCall("iadd", 12, ra(1), RegUnpack(ra(2), 2), r0, "no signal", TRUE),
     AddCall("iadd", 12, RegPack(ra(1), 2, FALSE), r0, r1, "no signal", TRUE)}

PackMulCalls ==
    {FmulCall(rb(2), r0, r1, IntVal(0)),
     FmulCall(RegPack(rb(1), 4, TRUE), r0, r1, IntVal(0)),
     FmulCall(RegPack(rb(1), 5, TRUE), r0, r1, IntVal(0)),
     FmulCall(rb(2), RegUnpack(r4, 1), r1, IntVal(0)),
     FmulCall(rb(2), RegUnpack(ra(2), 1), r1, IntVal(0))}

NextPack ==
    \/ AluRoom /\ \E c \in PackAddCalls : AddInsn(c, TRUE)
    \/ \E m \in PackMulCalls : MulBind(m)
    \/ AluRoom /\ \E m \in PackMulCalls : MulInsn(m)
    \/ GetCode

SpecPack == Init /\ [][NextPack]_vars

\* the read placement the last ALU call computed
LastRead ==
    IF last.op = "add_insn"
    THEN locate_read_operands(last.call.opd1, last.call.opd2, r0, r0)
    ELSE IF last.op = "assemble"
    THEN locate_read_operands(emitter.add_opd1, emitter.add_opd2,
                              last.call.mul_opd1, last.call.mul_opd2)
    ELSE locate_read_operands(r0, r0, last.call.mul_opd1, last.call.mul_opd2)

\* the write placement the last ALU call computed
LastWrite ==
    IF last.op = "add_insn" THEN locate_write_operands(last.call.dst, null)
    ELSE IF last.op = "assemble"
    THEN locate_write_operands(emitter.add_dst, last.call.mul_dst)
    ELSE locate_write_operands(null, last.call.mul_dst)

\* C11: an ALU call whose placements hold an unpack and a pack fails when
\* their pm bits differ and otherwise writes a word whose pm is their common
\* pm; with one modifier the word's pm is that modifier's pm; with none it
\* is 0
C11_ModifierPm ==
    (/\ last.op \in {"add_insn", "assemble", "mul_insn"}
     /\ LastRead.kind = "ok"
     /\ LastWrite.kind = "ok") =>
        /\ (LastRead.unpack # 0 /\ LastWrite.pack # 0
            /\ LastRead.pm # LastWrite.pm) => last.err # "none"
        /\ last.err = "none" =>
              AluFields(insns[Len(insns)]).pm =
                 IF LastRead.unpack # 0 THEN B2I(LastRead.pm)
                 ELSE IF LastWrite.pack # 0 THEN B2I(LastWrite.pm)
                 ELSE 0

(***************************************************************************)
(* pack_imm as a function of a list of lanes: the specification draws the  *)
(* list and applies the function once.                                     *)
(***************************************************************************)
MaxShortLanes == 3

LaneValues == -3..4

RECURSIVE LaneLists(_)
LaneLists(n) ==
    IF n = 0 THEN {<<>>}
    ELSE LaneLists(n - 1) \cup
         {Append(l, v) : l \in {k \in LaneLists(n - 1) : Len(k) = n - 1},
                         v \in LaneValues}

\* every short list, the lists with one lane set, the lists of ones of each
\* length up to 17, and the two lists of the doctest
ImmLanes ==
    LaneLists(MaxShortLanes)
    \cup {[j \in 1..16 |-> IF j = i THEN v ELSE 0] : i \in 1..16, v \in LaneValues}
    \cup {[j \in 1..16 |-> IF j = i THEN v ELSE IF j = 16 THEN -1 ELSE 0] :
             i \in 1..15, v \in LaneValues}
    \cup {[j \in 1..n |-> 1] : n \in 0..17}
    \cup {<<3, 3, 1, 1, 0, 2, 3, 3, 1, 3, 0, 2, 2, 1, 0, 1>>,
          <<-2, 1, 1, 1, -2, 0, 0, 1, -1, 1, -1, -2, 1, 1, 1, -1>>}

InitImm ==
    /\ insns = NewAssembler.insns
    /\ pc = NewAssembler.pc
    /\ labels = NewAssembler.labels
    /\ backpatch_list = NewAssembler.backpatch_list
    /\ emitter = NoEmitter
    /\ branched = {}
    /\ \E l \in ImmLanes :
          last = [op |-> "pack_imm", call |-> VecVal(l),
                  err |-> "pending", ret |-> <<>>]

PackImm ==
    /\ last.op = "pack_imm"
    /\ last.err = "pending"
    /\ \E r \in {pack_imm(last.call)} :
          last' = [last EXCEPT
                      !.err = IF r.kind = "error" THEN r.err ELSE "none",
                      !.ret = r]
    /\ UNCHANGED <<asm_vars, emitter, branched>>

NextImm == PackImm

SpecImm == InitImm /\ [][NextImm]_vars

ImmDone == last.op = "pack_imm" /\ last.err # "pending"

\* lane i (from 0) of the list after zero-filling
LaneAt(i) ==
    IF i < Len(last.call.lanes) THEN last.call.lanes[i + 1] ELSE 0

ImmSigned == \E i \in 0..15 : LaneAt(i) < 0

ImmInRange ==
    \A i \in 0..15 :
        LaneAt(i) \in (IF ImmSigned THEN {-2, -1, 0, 1} ELSE {0, 1, 2, 3})

\* C13: pack_imm of a list of lanes fails for more than 16 lanes and for a
\* lane outside [-2,1] (signed: some lane negative) or [0,3] (unsigned);
\* otherwise bit 15-i of the word is the low bit of lane i, bit 31-i its
\* high bit, lanes past the end count as 0, and the unpack code is 1 for
\* signed and 3 for unsigned
C13_PackImmLanes ==
    ImmDone =>
        IF Len(last.call.lanes) > 16 \/ ~ImmInRange
        THEN last.err # "none"
        ELSE /\ last.err = "none"
             /\ last.ret.unpack = IF ImmSigned THEN 1 ELSE 3
             /\ \A i \in 0..15 :
                   /\ BitOf(last.ret.imm, 15 - i) =
                         B2I(LaneAt(i) \in {-1, 1, 3})
                   /\ BitOf(last.ret.imm, 31 - i) =
                         B2I(LaneAt(i) \in {-2, -1, 2, 3})

\* the second list of the doctest has been packed: 2293330415, which has
\* the bits of -2001636881, and unpack 1
C13_Witness ==
    /\ ImmDone
    /\ last.call.lanes = <<-2, 1, 1, 1, -2, 0, 0, 1, -1, 1, -1, -2, 1, 1, 1, -1>>
    /\ last.err = "none"
    /\ last.ret.unpack = 1
    /\ last.ret.imm = -2001636881

(***************************************************************************)
(* The branch specification: branches with and without a register input,   *)
(* to label names and to integers.                                         *)
(***************************************************************************)
RegBranchCalls ==
    {BranchCall(15, LabelTarget("L"), NoReg, null),
     BranchCall(15, LabelTarget("L"), ra(1), null),
     BranchCall(15, LabelTarget("L"), rb(1), null),
     BranchCall(15, IntVal(16), ra(40), null),
     BranchCall(15, IntVal(16), uniform, ra(2)),
     BranchCall(0, IntVal(-8), NoReg, null)}

NextBranch ==
    \/ \E c \in RegBranchCalls : Branch(c)
    \/ \E name \in Names : Label(name)
    \/ GetCode

SpecBranch == Init /\ [][NextBranch]_vars

\* C14: a branch with a register input fails unless the register is
\* A-readable, and on success the word has reg = 1 and raddr_a equal to the
\* register's address; an integer target gives rel = 0, the target as the
\* immediate and no new pending entry; a label name gives rel = 1 and one
\* new pending entry (the PC of the word, the name)
C14_BranchWord ==
    [][Calls("branch_insn") =>
         /\ (IsRegister(last'.call.reg)
             /\ ~HasSpec(last'.call.reg.spec, _REG_AR)) => last'.err # "none"
         /\ last'.err = "none" =>
              /\ Len(insns') = Len(insns) + 1
              /\ IsRegister(last'.call.reg) =>
                    /\ BranchFields(insns'[Len(insns')]).reg = 1
                    /\ BranchFields(insns'[Len(insns')]).raddr_a =
                          last'.call.reg.addr
              /\ last'.call.target.kind = "int" =>
                    /\ BranchFields(insns'[Len(insns')]).rel = 0
                    /\ BranchFields(insns'[Len(insns')]).immediate =
                          last'.call.target.n
                    /\ backpatch_list' = backpatch_list
              /\ last'.call.target.kind = "label" =>
                    /\ BranchFields(insns'[Len(insns')]).rel = 1
                    /\ backpatch_list' =
                          Append(backpatch_list,
                                 <<pc, last'.call.target.name>>)]_vars

FrontEndCalls ==
    {"add_insn", "mul_insn", "assemble", "ldi", "branch_insn", "sema_insn",
     "label"}

\* C15: a front-end call that fails with an assembly error leaves the
\* buffer, the PC, the label map and the pending list as they were
C15_FailedCallChangesNothing ==
    [][(/\ vars' # vars
        /\ last'.op \in FrontEndCalls
        /\ last'.err \notin {"none", "NameError"}) =>
           asm_vars' = asm_vars]_vars

(***************************************************************************)
(* The late-binder specification: every call of the menu succeeds, and the *)
(* binder returned by an add call may be invoked after later calls.        *)
(***************************************************************************)
LateBranchCalls ==
    {BranchCall(15, LabelTarget("L"), NoReg, null),
     BranchCall(15, LabelTarget("M"), NoReg, null),
     BranchCall(15, IntVal(16), NoReg, null)}

LateMulCalls == {FmulCall(rb(1), r0, r1, IntVal(0))}

NextLate ==
    \/ AddInsn(NopCall, TRUE)
    \/ \E m \in LateMulCalls : MulBind(m)
    \/ \E c \in LateBranchCalls : Branch(c)
    \/ \E name \in Declared : Label(name)
    \/ GetCode

SpecLate == Init /\ [][NextLate]_vars

\* C16: every pending entry (P, L) has P a multiple of 8 below the end of
\* the buffer, and the word at index P/8 is a branch word with rel = 1
C16_PendingAreBranches ==
    \A k \in 1..Len(backpatch_list) :
        /\ backpatch_list[k][1] % 8 = 0
        /\ backpatch_list[k][1] \div 8 < Len(insns)
        /\ BranchFields(insns[(backpatch_list[k][1] \div 8) + 1]).sig = 15
        /\ BranchFields(insns[(backpatch_list[k][1] \div 8) + 1]).rel = 1

\* the last call was a mul mnemonic with a rotate and it wrote its word
RotateEmitted ==
    /\ last.op \in {"assemble", "mul_insn"}
    /\ last.err = "none"
    /\ RotateGiven(last.call.rotate)

\* C17: in every ALU word written, an operand read through mux 7 finds its
\* own regfile-B address in raddr_b, or its own small-immediate code there
\* with sig = 13; an operand read through mux 6 finds its own address in
\* raddr_a; a word with a rotate reads no operand through regfile B
C17_RaddrMatchesOperands ==
    \A w \in EmittedAlu :
        \A i \in 1..4 :
            /\ MuxFields(insns[w.idx])[i] = INPUT_MUX_REGFILE_B =>
                  /\ IF IsRegister(w.opds[i])
                     THEN AluFields(insns[w.idx]).raddr_b = w.opds[i].addr
                     ELSE /\ AluFields(insns[w.idx]).raddr_b =
                                SMALL_IMMEDIATES(w.opds[i])
                          /\ AluFields(insns[w.idx]).sig = 13
                  /\ ~RotateEmitted
            /\ MuxFields(insns[w.idx])[i] = INPUT_MUX_REGFILE_A =>
                  /\ IsRegister(w.opds[i])
                  /\ AluFields(insns[w.idx]).raddr_a = w.opds[i].addr

====
